---- MODULE Spec2Model ----
(***************************************************************************)
(* The SUO-KIF compiler of src/src/suokif_compiler: the lexer, the atom    *)
(* classifier, the stack-based tree builder, the symbol table and the      *)
(* Compiler instance that holds the last tree and the last symbol table.   *)
(*                                                                         *)
(* A Python str is a sequence of one-character strings, offsets are        *)
(* Python's (0-based, half-open).  A node is a record with the fields of   *)
(* its dataclass plus "cls" (its class) and "id" (the ordinal of the       *)
(* object's construction within one _parse call: the object's identity     *)
(* among the nodes of one tree).                                           *)
(***************************************************************************)
EXTENDS Integers, Sequences, FiniteSets, TLC

VARIABLES
    ast,        \* Compiler.ast
    table,      \* Compiler.symbol_table.table
    call,       \* the last call on the instance: operation, argument, outcome
    ncalls,     \* history: the number of calls made on the instance
    compiled,   \* history: the inputs compile has returned for, in call order
    token,      \* the argument of a direct _create_atom call
    atom        \* what that call returned

vars == <<ast, table, call, ncalls, compiled, token, atom>>

-----------------------------------------------------------------------------
(* Python values *)

None == "None"

Min(S) == CHOOSE m \in S : \A n \in S : m <= n

\* F(v) for the value v of e.  TLC may evaluate a LET definition or an
\* operator argument again at each use of its name; a bound variable holds
\* a value, so a result that is used more than once is bound with Bind.
Bind(e, F(_)) == CHOOSE r \in {F(v) : v \in {e}} : TRUE

\* s[a:b] for 0 <= a, b
Slice(s, a, b) == SubSeq(s, a + 1, IF b > Len(s) THEN Len(s) ELSE b)

\* str.startswith(c) for a one-character c
startswith(s, c) == Len(s) >= 1 /\ s[1] = c

\* the grave accent character, U+0060, which a TLA+ string cannot hold
Backtick == "U+0060"

\* the characters the regex class \s matches
WhiteSpace == {" ", "\t", "\n", "\r", "\f"}

-----------------------------------------------------------------------------
(* _tokenize: re.finditer over  ;[^\n]*|"[^"]*"|\(|\)|[^\s()]+             *)

\* 1-based position just after the greedy run of characters not in stop,
\* the run starting at position i
RunEnd(text, i, stop) ==
    LET S == {j \in i..Len(text) : text[j] \in stop}
    IN  IF S = {} THEN Len(text) + 1 ELSE Min(S)

\* the 1-based position just after the match of the pattern that starts at
\* position i, or 0 when no alternative matches there; the alternatives are
\* tried in the order they are written
MatchAt(text, i) ==
    LET c == text[i]
        close == RunEnd(text, i + 1, {"\""})
    IN  IF c = ";" THEN RunEnd(text, i + 1, {"\n"})
        ELSE IF c = "\"" /\ close <= Len(text) THEN close + 1
        ELSE IF c \in {"(", ")"} THEN i + 1
        ELSE IF c \notin WhiteSpace THEN RunEnd(text, i, WhiteSpace \cup {"(", ")"})
        ELSE 0

RECURSIVE TokenizeFrom(_, _)
TokenizeFrom(text, i) ==
    IF i > Len(text) THEN <<>>
    ELSE LET e == MatchAt(text, i)
         IN  IF e = 0 THEN TokenizeFrom(text, i + 1)
             ELSE LET token_text == SubSeq(text, i, e - 1)
                  IN  (IF startswith(token_text, ";") THEN <<>>
                       ELSE << <<token_text, i - 1, e - 1>> >>)
                      \o TokenizeFrom(text, e)

\* the list of (token_text, start_index, end_index)
_tokenize(text) == TokenizeFrom(text, 1)

-----------------------------------------------------------------------------
(* float(token): Python's floatvalue grammar and the value it denotes      *)

Digits == {"0", "1", "2", "3", "4", "5", "6", "7", "8", "9"}

DigitVal(c) ==
    CASE c = "0" -> 0 [] c = "1" -> 1 [] c = "2" -> 2 [] c = "3" -> 3
      [] c = "4" -> 4 [] c = "5" -> 5 [] c = "6" -> 6 [] c = "7" -> 7
      [] c = "8" -> 8 [] c = "9" -> 9

LowerChar(c) ==
    CASE c = "I" -> "i" [] c = "N" -> "n" [] c = "F" -> "f" [] c = "A" -> "a"
      [] c = "T" -> "t" [] c = "Y" -> "y" [] OTHER -> c

Lower(s) == [k \in 1..Len(s) |-> LowerChar(s[k])]

\* digitpart ::= digit (["_"] digit)*
IsDigitPart(s) ==
    /\ Len(s) >= 1
    /\ s[1] \in Digits
    /\ s[Len(s)] \in Digits
    /\ \A k \in 1..Len(s) : s[k] \in Digits \cup {"_"}
    /\ \A k \in 1..(Len(s) - 1) : ~(s[k] = "_" /\ s[k + 1] = "_")

\* the first position of a character of set cs in s, or Len(s) + 1
Find(s, cs) == RunEnd(s, 1, cs)

StripSign(s) == IF Len(s) >= 1 /\ s[1] \in {"+", "-"} THEN Tail(s) ELSE s

IsNegative(s) == startswith(s, "-")

INF == <<"i", "n", "f">>
INFINITY == <<"i", "n", "f", "i", "n", "i", "t", "y">>
NAN == <<"n", "a", "n">>

Mantissa(body) == SubSeq(body, 1, Find(body, {"e", "E"}) - 1)
HasExponent(body) == Find(body, {"e", "E"}) <= Len(body)
Exponent(body) == SubSeq(body, Find(body, {"e", "E"}) + 1, Len(body))
IntPart(m) == SubSeq(m, 1, Find(m, {"."}) - 1)
HasPoint(m) == Find(m, {"."}) <= Len(m)
FracPart(m) == SubSeq(m, Find(m, {"."}) + 1, Len(m))

\* number ::= [digitpart] "." digitpart | digitpart ["."]
IsNumber(m) ==
    IF HasPoint(m)
    THEN \/ IsDigitPart(IntPart(m)) /\ (FracPart(m) = <<>> \/ IsDigitPart(FracPart(m)))
         \/ IntPart(m) = <<>> /\ IsDigitPart(FracPart(m))
    ELSE IsDigitPart(m)

\* floatvalue ::= [sign] (number [("e"|"E") [sign] digitpart] | infinity | nan)
FloatParses(s) ==
    LET body == StripSign(s)
    IN  \/ Lower(body) \in {INF, INFINITY, NAN}
        \/ /\ IsNumber(Mantissa(body))
           /\ HasExponent(body) => IsDigitPart(StripSign(Exponent(body)))

RECURSIVE DigitsValue(_)
DigitsValue(s) ==
    IF s = <<>> THEN 0
    ELSE IF s[Len(s)] = "_" THEN DigitsValue(SubSeq(s, 1, Len(s) - 1))
    ELSE 10 * DigitsValue(SubSeq(s, 1, Len(s) - 1)) + DigitVal(s[Len(s)])

RECURSIVE NumDigits(_)
NumDigits(s) ==
    IF s = <<>> THEN 0
    ELSE (IF s[1] = "_" THEN 0 ELSE 1) + NumDigits(Tail(s))

\* m * 10^e with m not a multiple of 10 (0 is 0 * 10^0)
RECURSIVE Normal(_, _)
Normal(m, e) ==
    IF m = 0 THEN <<0, 0>>
    ELSE IF m % 10 = 0 THEN Normal(m \div 10, e + 1)
    ELSE <<m, e>>

RECURSIVE Magnitude(_)
Magnitude(m) == IF m < 10 THEN 1 ELSE 1 + Magnitude(m \div 10)

\* the largest and smallest decimal magnitudes a float64 holds; the edges of
\* the range are taken to the decade (9e308 and 1e-324 count as finite here,
\* float() gives inf and 0.0)
MaxExp10 == 309
MinExp10 == -323

\* the float: kind finite/inf/nan, sign, and m * 10^e for a finite value
\* (a value past the float64 range is inf, one below it is 0)
FloatValue(s) ==
    LET body == StripSign(s)
        mant == Mantissa(body)
        digs == IF HasPoint(mant) THEN IntPart(mant) \o FracPart(mant) ELSE mant
        frac == IF HasPoint(mant) THEN NumDigits(FracPart(mant)) ELSE 0
        ex   == IF HasExponent(body)
                THEN (IF IsNegative(Exponent(body)) THEN -1 ELSE 1)
                     * DigitsValue(StripSign(Exponent(body)))
                ELSE 0
        n    == Normal(DigitsValue(digs), ex - frac)
    IN  IF Lower(body) = NAN THEN [kind |-> "nan", neg |-> FALSE, m |-> 0, e |-> 0]
        ELSE IF Lower(body) \in {INF, INFINITY}
             THEN [kind |-> "inf", neg |-> IsNegative(s), m |-> 0, e |-> 0]
        ELSE IF n[1] # 0 /\ Magnitude(n[1]) + n[2] > MaxExp10
             THEN [kind |-> "inf", neg |-> IsNegative(s), m |-> 0, e |-> 0]
        ELSE IF n[1] # 0 /\ Magnitude(n[1]) + n[2] < MinExp10
             THEN [kind |-> "finite", neg |-> IsNegative(s), m |-> 0, e |-> 0]
        ELSE [kind |-> "finite", neg |-> IsNegative(s), m |-> n[1], e |-> n[2]]

-----------------------------------------------------------------------------
(* ast.py: the node classes *)

OperatorClasses ==
    {"Conditional", "Biconditional", "And", "Or", "Not", "Exists", "Eq", "ForAll"}

\* isinstance(node, Operator)
IsOperator(node) == node.cls \in OperatorClasses

\* isinstance(node, Expression): Operator is a subclass of Expression
IsExpression(node) == node.cls = "Expression" \/ IsOperator(node)

\* isinstance(node, Symbol)
IsSymbol(node) == node.cls = "Symbol"

String(content, original_text) ==
    [cls |-> "String", content |-> content, original_text |-> original_text,
     source_text |-> None]

Number(content, original_text) ==
    [cls |-> "Number", content |-> content, original_text |-> original_text,
     source_text |-> None]

Boolean(content, original_text) ==
    [cls |-> "Boolean", content |-> content, original_text |-> original_text,
     source_text |-> None]

Symbol(name) == [cls |-> "Symbol", name |-> name, source_text |-> None]

\* __post_init__ strips one leading "?"
Variable(name) ==
    [cls |-> "Variable",
     name |-> IF startswith(name, "?") THEN Tail(name) ELSE name,
     source_text |-> None]

Expression(children) ==
    [cls |-> "Expression", children |-> children, source_text |-> None]

\* an Operator subclass built with no argument: children = []
OperatorNode(cls) == [cls |-> cls, children |-> <<>>, source_text |-> None]

-----------------------------------------------------------------------------
(* _create_atom *)

TRUE_ == <<"t", "r", "u", "e">>
FALSE_ == <<"f", "a", "l", "s", "e">>
KwConditional == <<"=", ">">>
KwBiconditional == <<"<", "=", ">">>
KwAnd == <<"a", "n", "d">>
KwOr == <<"o", "r">>
KwNot == <<"n", "o", "t">>
KwExists == <<"e", "x", "i", "s", "t", "s">>
KwEq == <<"=">>
KwForAll == <<"f", "o", "r", "a", "l", "l">>

_create_atom(tok) ==
    IF startswith(tok, "\"") \/ startswith(tok, Backtick) THEN String(tok, tok)
    ELSE IF startswith(tok, "?") THEN Variable(tok)
    ELSE IF tok = TRUE_ THEN Boolean(TRUE, tok)
    ELSE IF tok = FALSE_ THEN Boolean(FALSE, tok)
    ELSE IF tok = KwConditional THEN OperatorNode("Conditional")
    ELSE IF tok = KwBiconditional THEN OperatorNode("Biconditional")
    ELSE IF tok = KwAnd THEN OperatorNode("And")
    ELSE IF tok = KwOr THEN OperatorNode("Or")
    ELSE IF tok = KwNot THEN OperatorNode("Not")
    ELSE IF tok = KwExists THEN OperatorNode("Exists")
    ELSE IF tok = KwEq THEN OperatorNode("Eq")
    ELSE IF tok = KwForAll THEN OperatorNode("ForAll")
    ELSE IF FloatParses(tok) THEN Number(FloatValue(tok), tok)
    ELSE Symbol(tok)

-----------------------------------------------------------------------------
(* _parse *)

\* the object `node` once it has been constructed as the id-th object
Construct(node, id) ==
    [f \in DOMAIN node \cup {"id"} |-> IF f = "id" THEN id ELSE node[f]]

NoError == "no error"
UnexpectedClose == "ValueError: Unexpected ')'"
UnclosedOpen == "ValueError: Unclosed '('"
EmptyInput == "ValueError: Input cannot be empty"

\* stack = [[]], starts = []; nid counts the objects constructed so far
ParseInit ==
    [stack |-> << <<>> >>, starts |-> <<>>, nid |-> 0, raised |-> NoError, at |-> 0]

\* the guard of line 92
StackUnderflow(stack) == Len(stack) <= 1

\* the test of line 98: the finished list is non-empty and its first element
\* is an instance of Operator
HeadIsOperator(finished_expr_list) ==
    finished_expr_list # <<>> /\ IsOperator(finished_expr_list[1])

\* a slip: the slice stops before the ")"
ExprSourceText_Short(original_text, expr_start, end) ==
    Slice(original_text, expr_start, end - 1)

\* original_text[expr_start:end] of line 104
ExprSourceText(original_text, expr_start, end) == Slice(original_text, expr_start, end)

\* original_text[start:end] of line 108
AtomSourceText(original_text, start, end) == Slice(original_text, start, end)

\* the body of the for loop for the k-th token
ParseToken(st, tok, k, original_text) ==
    LET tk == tok[1]
        start == tok[2]
        end == tok[3]
        depth == Len(st.stack)
    IN  IF tk = <<"(">>
        THEN [st EXCEPT !.stack = Append(@, <<>>), !.starts = Append(@, start)]
        ELSE IF tk = <<")">>
        THEN IF StackUnderflow(st.stack)
             THEN [st EXCEPT !.raised = UnexpectedClose, !.at = k]
             ELSE LET finished_expr_list == st.stack[depth]
                      expr_start == st.starts[Len(st.starts)]
                      promoted == HeadIsOperator(finished_expr_list)
                      made == IF promoted
                              THEN [finished_expr_list[1] EXCEPT
                                        !.children = Tail(finished_expr_list)]
                              ELSE Construct(Expression(finished_expr_list), st.nid)
                      node == [made EXCEPT !.source_text =
                                   ExprSourceText(original_text, expr_start, end)]
                  IN  [st EXCEPT
                          !.stack = [SubSeq(@, 1, depth - 1) EXCEPT
                                        ![depth - 1] = Append(@, node)],
                          !.starts = SubSeq(@, 1, Len(@) - 1),
                          !.nid = IF promoted THEN @ ELSE @ + 1]
        ELSE LET made == Construct(_create_atom(tk), st.nid)
                 node == [made EXCEPT !.source_text =
                              AtomSourceText(original_text, start, end)]
             IN  [st EXCEPT !.stack[depth] = Append(@, node), !.nid = @ + 1]

RECURSIVE ParseLoop(_, _, _, _)
ParseLoop(st, tokens, k, original_text) ==
    IF k > Len(tokens) \/ st.raised # NoError THEN st
    ELSE Bind(ParseToken(st, tokens[k], k, original_text),
              LAMBDA next : ParseLoop(next, tokens, k + 1, original_text))

\* a slip: only a second unclosed "(" is noticed
UnclosedAtEnd_Deep(stack) == Len(stack) > 2

\* the test of line 111
UnclosedAtEnd(stack) == Len(stack) # 1

\* the outcome of _parse: raised = NoError and nodes = stack[0], or the error
\* raised, the 1-based ordinal `at` of the token it was raised at (one past
\* the last token for the check after the loop) and the frames left behind
ParseOutcome(st, tokens) ==
    IF st.raised # NoError
    THEN [raised |-> st.raised, at |-> st.at, nodes |-> <<>>, stack |-> st.stack]
    ELSE IF UnclosedAtEnd(st.stack)
    THEN [raised |-> UnclosedOpen, at |-> Len(tokens) + 1, nodes |-> <<>>,
          stack |-> st.stack]
    ELSE [raised |-> NoError, at |-> 0, nodes |-> st.stack[1], stack |-> st.stack]

_parse(tokens, original_text) ==
    Bind(ParseLoop(ParseInit, tokens, 1, original_text),
         LAMBDA st : ParseOutcome(st, tokens))

-----------------------------------------------------------------------------
(* symbol_table.py and _build_symbol_table *)

\* SymbolTable(): table = {}
SymbolTable == [name \in {} |-> <<>>]

\* the methods class SymbolTable defines
SymbolTableMethods == {"__init__", "add_reference", "__repr__"}

add_reference(tbl, symbol_name, node) ==
    IF symbol_name \notin DOMAIN tbl
    THEN (symbol_name :> <<node>>) @@ tbl
    ELSE [tbl EXCEPT ![symbol_name] = Append(@, node)]

\* parent=None
NoParent == [cls |-> "NoneType"]

\* the truth value of `parent`: None is false, a node object is true (no
\* class of ast.py defines __bool__ or __len__)
Truthy(parent) == parent.cls # "NoneType"

\* a slip: the symbol itself is recorded, whatever encloses it
RefNode_Self(node, parent) == node

\* ref_node = parent if parent else node
RefNode(node, parent) == IF Truthy(parent) THEN parent ELSE node

RECURSIVE _traverse_and_collect(_, _, _)
RECURSIVE CollectChildren(_, _, _, _)

\* for child in node.children, from the i-th child on
CollectChildren(tbl, children, i, parent) ==
    IF i > Len(children) THEN tbl
    ELSE Bind(_traverse_and_collect(tbl, children[i], parent),
              LAMBDA next : CollectChildren(next, children, i + 1, parent))

_traverse_and_collect(tbl, node, parent) ==
    IF IsExpression(node) THEN CollectChildren(tbl, node.children, 1, node)
    ELSE IF IsSymbol(node) THEN add_reference(tbl, node.name, RefNode(node, parent))
    ELSE tbl

\* a slip: the table is not replaced, the instance's own is added to
FreshTable_Held(held) == held

\* the table line 153 starts from, given the table the instance held
FreshTable(held) == SymbolTable

\* the table after _build_symbol_table(nodes) on an instance that held `held`
_build_symbol_table(held, nodes) ==
    CollectChildren(FreshTable(held), nodes, 1, NoParent)

-----------------------------------------------------------------------------
(* Compiler *)

\* `not kif_string`
IsEmptyString(kif_string) == kif_string = <<>>

\* a slip: the top-level list built so far is stored even when _parse raised
AstAfterParse_Partial(held_ast, p) == p.stack[1]

\* self.ast after line 32: the assignment is made only if _parse returned
AstAfterParse(held_ast, p) == IF p.raised = NoError THEN p.nodes ELSE held_ast

\* compile(kif_string) on an instance holding held_ast and held_table: the
\* fields afterwards and the outcome (the error raised and the ordinal of the
\* token it was raised at, or the list returned)
\* lines 32 to 35, p being what _parse did
CompileParsed(held_ast, held_table, p) ==
    IF p.raised # NoError
    THEN [ast |-> AstAfterParse(held_ast, p), table |-> held_table,
          raised |-> p.raised, at |-> p.at, returned |-> FALSE, ret |-> <<>>]
    ELSE [ast |-> AstAfterParse(held_ast, p),
          table |-> _build_symbol_table(held_table, AstAfterParse(held_ast, p)),
          raised |-> NoError, at |-> 0, returned |-> TRUE,
          ret |-> AstAfterParse(held_ast, p)]

compile(held_ast, held_table, kif_string) ==
    IF IsEmptyString(kif_string)
    THEN [ast |-> held_ast, table |-> held_table, raised |-> EmptyInput, at |-> 0,
          returned |-> FALSE, ret |-> <<>>]
    ELSE Bind(_tokenize(kif_string), LAMBDA tokens :
         Bind(_parse(tokens, kif_string), LAMBDA p :
         CompileParsed(held_ast, held_table, p)))

AttributeError == "AttributeError: 'SymbolTable' object has no attribute 'get_references'"

\* Compiler(): ast = [], symbol_table = SymbolTable()
NoCall == [op |-> "none", arg |-> <<>>, raised |-> NoError, at |-> 0,
           returned |-> FALSE, ret |-> <<>>]

NoneObject == [cls |-> "NoneType"]

Init ==
    /\ ast = <<>>
    /\ table = SymbolTable
    /\ call = NoCall
    /\ ncalls = 0
    /\ compiled = <<>>
    /\ token = <<>>
    /\ atom = NoneObject

\* the longest sequence of calls made on one instance
MaxCalls == 3

Compile(kif_string) ==
    \E r \in {compile(ast, table, kif_string)} :
        /\ ncalls < MaxCalls
        /\ ncalls' = ncalls + 1
        /\ compiled' = IF r.returned THEN Append(compiled, kif_string) ELSE compiled
        /\ ast' = r.ast
        /\ table' = r.table
        /\ call' = [op |-> "compile", arg |-> kif_string, raised |-> r.raised,
                    at |-> r.at, returned |-> r.returned, ret |-> r.ret]
        /\ UNCHANGED <<token, atom>>

\* find_symbol_usages(symbol_name): the lookup of get_references on the
\* SymbolTable object raises, the class defining no such method
FindSymbolUsages(symbol_name) ==
    /\ "get_references" \notin SymbolTableMethods
    /\ ncalls < MaxCalls
    /\ ncalls' = ncalls + 1
    /\ call' = [op |-> "find_symbol_usages", arg |-> symbol_name,
                raised |-> AttributeError, at |-> 0, returned |-> FALSE, ret |-> <<>>]
    /\ UNCHANGED <<ast, table, compiled, token, atom>>

-----------------------------------------------------------------------------
(* The inputs *)

\* §8 index completeness / examples/basic_usage.py
TextIndexExample ==
    <<"(", "i", "n", "s", "t", "a", "n", "c", "e", " ", "G", "e", "m", "i",
      "n", "i", " ", "A", "I", ")">>

\* §8 operator promotion
TextPromotionExample ==
    <<"(", "a", "n", "d", " ", "(", "i", "n", "s", "t", "a", "n", "c", "e",
      " ", "M", "a", "r", "y", " ", "H", "u", "m", "a", "n", ")", " ", "(",
      "i", "n", "s", "t", "a", "n", "c", "e", " ", "M", "a", "r", "y", " ",
      "A", "n", "i", "m", "a", "l", ")", ")">>

\* a list whose first element is a keyword-headed list
TextNestedHead ==
    <<"(", "(", "a", "n", "d", " ", "a", " ", "b", ")", " ", "c", ")">>

\* §8 keyword literalism
TextKeywordArgument ==
    <<"(", "f", "o", "o", " ", "a", "n", "d", ")">>

\* §8 comment stripping
TextComment ==
    <<";", " ", "c", "o", "m", "m", "e", "n", "t", "\n", "(", "f", "o", "o",
      " ", "b", "a", "r", ")">>

\* every leaf class, a parenthesis inside a string
TextAllLeaves ==
    <<"(", "=", ">", " ", "(", "p", " ", "?", "x", ")", " ", "(", "q", " ",
      "3", ".", "5", " ", "\"", "s", " ", "(", "t", "\"", " ", "t", "r", "u",
      "e", ")", ")">>

\* a symbol at top level and twice in one list
TextRepeated ==
    <<"a", " ", "(", "a", " ", "(", "b", " ", "?", "x", ")", " ", "a", ")",
      " ", "a">>

\* whitespace and a comment
TextCommentOnly ==
    <<" ", " ", ";", " ", "o", "n", "l", "y", " ", "a", " ", "c", "o", "m",
      "m", "e", "n", "t">>

NamedTexts ==
    {TextIndexExample,
     TextPromotionExample,
     TextNestedHead,
     TextKeywordArgument,
     TextComment,
     TextAllLeaves,
     TextRepeated,
     TextCommentOnly}

\* the characters of the generated inputs of one compile call
Alphabet == {"(", ")", " ", "a", "=", ";", "\n", "\""}
MaxLen == 5

Texts == UNION {[1..n -> Alphabet] : n \in 0..MaxLen} \cup NamedTexts

\* the inputs of a sequence of calls on one instance: three that raise
\* (empty, a stray ")", an unclosed "(") and five that compile
CallTexts ==
    {<<>>, <<"a", ")">>, <<"(", "a">>,
     <<"a">>, <<"b">>, <<"(", "a", ")">>, <<"(", "a", " ", "b", ")">>,
     <<"(", "=", " ", "a", " ", "a", ")">>}

Names == {<<"a">>, <<"b">>, <<"c">>}

-----------------------------------------------------------------------------
(* Spec: any sequence of compile and find_symbol_usages calls on one       *)
(* instance.  SpecCompile: one compile call on a new instance.             *)

Next ==
    \/ \E kif_string \in CallTexts : Compile(kif_string)
    \/ \E symbol_name \in Names : FindSymbolUsages(symbol_name)

Spec == Init /\ [][Next]_vars

CompileOnce == ncalls = 0 /\ \E kif_string \in Texts : Compile(kif_string)

SpecCompile == Init /\ [][CompileOnce]_vars

\* every character of the generated tokens of a direct _create_atom call
AtomAlphabet == {"?", "\"", Backtick, "=", ">", "1", ".", "e", "-", "_", "a"}
MaxAtomLen == 3

\* the tokens the documentation names, and words float() accepts
NamedTokens ==
    {TRUE_, FALSE_, KwConditional, KwBiconditional, KwAnd, KwOr, KwNot, KwExists,
     KwEq, KwForAll, INF, INFINITY, NAN,
     <<"?", "t", "r", "u", "e">>, <<"?", "1">>, <<"a", "b", "c", "3">>,
     <<"3", ".", "5">>, <<"-", "2", "e", "3">>, <<"-", "I", "n", "f">>,
     <<"1", "e", "9", "9", "9">>, <<"1", "e", "-", "9", "9", "9">>}

\* a token is a non-empty run of characters
AtomTokens == UNION {[1..n -> AtomAlphabet] : n \in 1..MaxAtomLen} \cup NamedTokens

InitAtom ==
    /\ ast = <<>>
    /\ table = SymbolTable
    /\ call = NoCall
    /\ ncalls = 0
    /\ compiled = <<>>
    /\ token \in AtomTokens
    /\ atom = NoneObject

CreateAtom ==
    /\ atom = NoneObject
    /\ atom' = _create_atom(token)
    /\ UNCHANGED <<ast, table, call, ncalls, compiled, token>>

\* SpecAtom: one _create_atom call on one token
SpecAtom == InitAtom /\ [][CreateAtom]_vars

-----------------------------------------------------------------------------
(* What the claims speak of: the tokens of the input, the balance of its   *)
(* parentheses, the nodes of a tree                                        *)

Compiled == call.op = "compile"
Returned == call.op = "compile" /\ call.returned

\* the tokens of the input of the last call
Toks == _tokenize(call.arg)

IsOpen(tok) == tok[1] = <<"(">>
IsClose(tok) == tok[1] = <<")">>

Opens(toks, n) == Cardinality({i \in 1..n : IsOpen(toks[i])})
Closes(toks, n) == Cardinality({i \in 1..n : IsClose(toks[i])})

\* the ordinals of the ")" tokens that close more than was opened before them
StrayCloses(toks) == {n \in 1..Len(toks) : Closes(toks, n) > Opens(toks, n)}

\* the number of top-level terms of a balanced token sequence: the tokens
\* at depth 0 that are not a "("
TopLevelTerms(toks) ==
    Cardinality({n \in 1..Len(toks) :
                    ~IsOpen(toks[n]) /\ Opens(toks, n) = Closes(toks, n)})

\* the node without the identity of its object, and so its children
RECURSIVE StripIds(_)
StripIds(node) ==
    [f \in DOMAIN node \ {"id"} |->
        IF f = "children"
        THEN [k \in 1..Len(node.children) |-> StripIds(node.children[k])]
        ELSE node[f]]

HasChildren(node) == "children" \in DOMAIN node

\* the nodes of the trees of a list of nodes, at any depth
RECURSIVE NodesOf(_)
NodesOf(nodes) ==
    UNION {{nodes[k]} \cup (IF HasChildren(nodes[k]) THEN NodesOf(nodes[k].children)
                            ELSE {}) : k \in 1..Len(nodes)}

C2_NoTokenRaisesEmptyInput ==
    (Compiled /\ Toks = <<>>) => (~call.returned /\ call.raised = EmptyInput)

\* what compile does with input text on a new instance
Fresh(text) == compile(<<>>, SymbolTable, text)

Keywords ==
    {KwConditional, KwBiconditional, KwAnd, KwOr, KwNot, KwExists, KwForAll, KwEq}

\* the kind of Operator node the documentation gives each keyword
KeywordKind(kw) ==
    CASE kw = KwConditional -> "Conditional"
      [] kw = KwBiconditional -> "Biconditional"
      [] kw = KwAnd -> "And"
      [] kw = KwOr -> "Or"
      [] kw = KwNot -> "Not"
      [] kw = KwExists -> "Exists"
      [] kw = KwForAll -> "ForAll"
      [] kw = KwEq -> "Eq"

Depth(toks, n) == Opens(toks, n) - Closes(toks, n)

\* the ordinal of the ")" that closes the "(" that is token i
Match(toks, i) ==
    Min({j \in (i + 1)..Len(toks) : Depth(toks, j) = Depth(toks, i - 1)})

\* the elements of a list, from token k up to the closing token j: each an
\* atom token or a parenthesized list, as its first and last token
RECURSIVE Elements(_, _, _)
Elements(toks, k, j) ==
    IF k >= j THEN <<>>
    ELSE IF IsOpen(toks[k])
    THEN <<[first |-> k, last |-> Match(toks, k)]>>
         \o Elements(toks, Match(toks, k) + 1, j)
    ELSE <<[first |-> k, last |-> k]>> \o Elements(toks, k + 1, j)

\* the input text from the first to the last token of an element
TextOf(text, toks, el) == Slice(text, toks[el.first][2], toks[el.last][3])

TextsOf(text, toks, els) == [k \in 1..Len(els) |-> TextOf(text, toks, els[k])]

\* the source texts of the children of a node
ChildTexts(node) == [k \in 1..Len(node.children) |-> node.children[k].source_text]

\* the "(" tokens of the input whose list has a keyword token first
KeywordLists(toks) ==
    {i \in 1..(Len(toks) - 1) : IsOpen(toks[i]) /\ toks[i + 1][1] \in Keywords}

\* the "(" tokens of the input whose list has anything else first, or nothing
OtherLists(toks) ==
    {i \in 1..(Len(toks) - 1) : IsOpen(toks[i]) /\ toks[i + 1][1] \notin Keywords}

\* C3: operator promotion.  Every balanced parenthesized list of the input
\* whose first element is a keyword token is in the returned tree one
\* Operator node of the keyword's kind whose children are the list's other
\* elements, in source order (the keyword is not a child).
C3_KeywordListIsOperator ==
    Returned =>
        \A i \in KeywordLists(Toks) :
            \E n \in NodesOf(call.ret) :
                /\ n.cls = KeywordKind(Toks[i + 1][1])
                /\ n.source_text
                     = TextOf(call.arg, Toks, [first |-> i, last |-> Match(Toks, i)])
                /\ ChildTexts(n)
                     = TextsOf(call.arg, Toks, Elements(Toks, i + 2, Match(Toks, i)))

\* the atom tokens of the input
AtomTokenOrdinals(toks) == {k \in 1..Len(toks) : ~IsOpen(toks[k]) /\ ~IsClose(toks[k])}

\* C9: promotion applies only to a keyword leaf.  Every balanced list whose
\* first element is not a keyword token (a list headed by a parenthesized
\* keyword list included) is in the returned tree a generic Expression
\* whose children are all of the list's elements in source order, and every
\* atom token of the input is exactly one leaf or operator head of the tree.
C9_OtherListIsExpression ==
    Returned =>
        /\ \A i \in OtherLists(Toks) :
              \E n \in NodesOf(call.ret) :
                  /\ n.cls = "Expression"
                  /\ n.source_text
                       = TextOf(call.arg, Toks, [first |-> i, last |-> Match(Toks, i)])
                  /\ ChildTexts(n)
                       = TextsOf(call.arg, Toks, Elements(Toks, i + 1, Match(Toks, i)))
        /\ Cardinality({n \in NodesOf(call.ret) : n.cls # "Expression"})
             = Cardinality(AtomTokenOrdinals(Toks))

\* the references the documentation asks for: one per Symbol leaf, in
\* depth-first order, to the node that has the leaf as a child, or to the
\* leaf itself when nothing encloses it
RECURSIVE SymbolRefs(_, _)
RECURSIVE SymbolRefsOfList(_, _, _)
SymbolRefsOfList(nodes, k, enclosing) ==
    IF k > Len(nodes) THEN <<>>
    ELSE SymbolRefs(nodes[k], enclosing) \o SymbolRefsOfList(nodes, k + 1, enclosing)

SymbolRefs(node, enclosing) ==
    IF HasChildren(node) THEN SymbolRefsOfList(node.children, 1, <<node>>)
    ELSE IF node.cls = "Symbol"
    THEN <<[name |-> node.name,
            ref |-> IF enclosing = <<>> THEN node ELSE enclosing[1]]>>
    ELSE <<>>

RECURSIVE RefsNamed(_, _)
RefsNamed(refs, name) ==
    IF refs = <<>> THEN <<>>
    ELSE (IF refs[1].name = name THEN <<refs[1].ref>> ELSE <<>>)
         \o RefsNamed(Tail(refs), name)

TextInstance == <<"i", "n", "s", "t", "a", "n", "c", "e">>
TextGemini == <<"G", "e", "m", "i", "n", "i">>
TextAI == <<"A", "I">>

\* C5: after a successful compile the symbol table has, for every name, one
\* entry per Symbol leaf of that name in the returned tree, in depth-first
\* order, each the node enclosing the leaf or the leaf itself at top level;
\* no other node adds an entry.  For (instance Gemini AI) the names are
\* instance, Gemini and AI, each with the one enclosing Expression.
C5_IndexMatchesSymbolLeaves ==
    Returned =>
        LET refs == SymbolRefsOfList(call.ret, 1, <<>>)
        IN  /\ DOMAIN table = {refs[k].name : k \in 1..Len(refs)}
            /\ \A name \in DOMAIN table : table[name] = RefsNamed(refs, name)
            /\ call.arg = TextIndexExample =>
                  /\ DOMAIN table = {TextInstance, TextGemini, TextAI}
                  /\ \A name \in DOMAIN table :
                        table[name] = <<ast[1]>> /\ ast[1].cls = "Expression"

\* a symbol at top level and again inside a list, beside a leaf that is no
\* symbol
C5_Witness ==
    /\ Returned
    /\ \E name \in DOMAIN table :
          /\ Len(table[name]) >= 2
          /\ table[name][1].cls = "Symbol"
          /\ table[name][2].cls # "Symbol"
    /\ \E n \in NodesOf(ast) : n.cls \notin {"Symbol", "Expression"}

IsSubstring(sub, text) ==
    \E a \in 0..(Len(text) - Len(sub)) : Slice(text, a, a + Len(sub)) = sub

\* C7: round trip.  The source text of every node of a returned tree is a
\* substring of the input and, compiled on its own, gives exactly one
\* top-level node equal to that node: same class, fields and children.
C7_RoundTrip ==
    Returned =>
        \A n \in NodesOf(call.ret) :
            /\ IsSubstring(n.source_text, call.arg)
            /\ Fresh(n.source_text).returned
            /\ Len(Fresh(n.source_text).ret) = 1
            /\ StripIds(Fresh(n.source_text).ret[1]) = StripIds(n)

\* a list that is not the whole input and has a child
C7_Witness ==
    /\ Returned
    /\ \E n \in NodesOf(call.ret) :
          /\ HasChildren(n)
          /\ n.children # <<>>
          /\ n.source_text # call.arg

\* the last input compile returned for
LastCompiled == compiled[Len(compiled)]

\* C6: no accumulation across calls.  After any sequence of successful
\* compile calls on one instance, its ast and symbol table are those of a
\* new instance that compiled only the last input.
C6_NoAccumulation ==
    (ncalls >= 1 /\ Len(compiled) = ncalls) =>
        /\ ast = Fresh(LastCompiled).ast
        /\ table = Fresh(LastCompiled).table

\* two successful compiles, the first input with a symbol the second lacks
C6_Witness ==
    /\ ncalls >= 2
    /\ Len(compiled) = ncalls
    /\ DOMAIN Fresh(compiled[ncalls - 1]).table \ DOMAIN table # {}

\* C10: a compile that raises returns nothing and leaves the instance's ast
\* and symbol table as they were before the call.
C10_FailingCompileIsAtomic ==
    [][(call'.op = "compile" /\ ncalls' = ncalls + 1 /\ call'.raised # NoError)
          => (~call'.returned /\ ast' = ast /\ table' = table)]_vars

\* a compile raised for an unbalanced input on an instance that holds the
\* tree and table of an earlier input
C10_Witness ==
    /\ Compiled
    /\ call.raised \in {UnexpectedClose, UnclosedOpen}
    /\ compiled # <<>>
    /\ ast = Fresh(LastCompiled).ast
    /\ ast # <<>>
    /\ DOMAIN table # {}

\* C4: find_symbol_usages(name), called after a successful compile, returns
\* the symbol table's list for the name, and an empty list, without
\* raising, for a name that did not occur.
C4_LookupReturnsList ==
    (call.op = "find_symbol_usages" /\ compiled # <<>>) =>
        /\ call.returned
        /\ call.raised = NoError
        /\ call.ret = IF call.arg \in DOMAIN table THEN table[call.arg] ELSE <<>>

\* a run of decimal digits
DecimalDigits(s) == s # <<>> /\ \A k \in 1..Len(s) : s[k] \in Digits

\* a decimal or exponential numeral: [sign] digits [. digits] or . digits,
\* then optionally e [sign] digits
IsDecimalNumeral(s) ==
    LET body == StripSign(s)
        m == Mantissa(body)
    IN  /\ IF HasPoint(m)
           THEN /\ IntPart(m) = <<>> \/ DecimalDigits(IntPart(m))
                /\ FracPart(m) = <<>> \/ DecimalDigits(FracPart(m))
                /\ IntPart(m) # <<>> \/ FracPart(m) # <<>>
           ELSE DecimalDigits(m)
        /\ HasExponent(body) => DecimalDigits(StripSign(Exponent(body)))

\* the class the documented order of rules gives a token
ClaimedClass(tok) ==
    IF startswith(tok, "\"") \/ startswith(tok, Backtick) THEN "String"
    ELSE IF startswith(tok, "?") THEN "Variable"
    ELSE IF tok \in {TRUE_, FALSE_} THEN "Boolean"
    ELSE IF tok \in Keywords THEN KeywordKind(tok)
    ELSE IF IsDecimalNumeral(tok) THEN "Number"
    ELSE "Symbol"

\* C8: the classifier returns the class of the first rule that matches, in
\* the order string, variable, boolean, keyword (an Operator without
\* children), decimal or exponential numeral, symbol; only such numerals
\* become a Number and any other word is a Symbol.
C8_FirstMatchingRule ==
    atom # NoneObject =>
        /\ atom.cls = ClaimedClass(token)
        /\ token \in Keywords => atom.children = <<>>

====
